---- MODULE Spec2Model ----
(***************************************************************************)
(* The catalog schema of src/models.py (Flask-SQLAlchemy declarative       *)
(* models) as a state machine.  The state is the contents of the seven     *)
(* tables; an action is one unit of work of the ORM session (add / modify  *)
(* / delete an object, then commit): the ORM applies the column defaults   *)
(* and the relationship cascades, the store checks every declared          *)
(* constraint on the result and either commits it or raises                *)
(* IntegrityError and rolls back.                                          *)
(*                                                                         *)
(* A table is a multiset of rows (row -> number of copies): nothing but a  *)
(* declared key keeps a row from being stored twice.  A nullable value is  *)
(* Null (no value) or Val(v).                                              *)
(***************************************************************************)
EXTENDS Integers, FiniteSets, Sequences, TLC

VARIABLES users, planets, people, vehicles,
          favorite_planets, favorite_people, favorite_vehicles,
          last

vars == <<users, planets, people, vehicles,
          favorite_planets, favorite_people, favorite_vehicles, last>>

(* ------------------------------ bounds -------------------------------- *)

\* Primary-key values range over 1..MaxId in every table.
MaxId == 2

Ids == 1..MaxId

\* The store holds at most MaxRows rows, all tables together.
MaxRows == 5

(* --------------------------- nullable values -------------------------- *)

Null == {}

Val(v) == {v}

Opt(S) == {Null} \cup {Val(v) : v \in S}

\* The value carried by a non-null nullable.
Get(o) == CHOOSE v \in o : TRUE

(* ------------------------------ inputs -------------------------------- *)

Emails == {"luke@rebels.org", "leia@rebels.org"}

Passwords == {"pbkdf2$hash"}

Names == {"Tatooine", "Alderaan"}

PersonNames == {"Luke Skywalker", "Leia Organa"}

VehicleNames == {"Snowspeeder", "Sand Crawler"}

Models == {"t-47 airspeeder"}

Manufacturers == {"Incom corporation"}

\* Timestamps: [year, month, day, hour, minute, second].
Epoch == [year |-> 2024, month |-> 5, day |-> 4, hour |-> 9, minute |-> 30, second |-> 0]

Later == [year |-> 2025, month |-> 12, day |-> 25, hour |-> 18, minute |-> 5, second |-> 59]

Times == {Epoch, Later}

(* ------------------------------ tables -------------------------------- *)

EmptyTable == <<>>

Rows(t) == DOMAIN t

\* INSERT: one more copy of the row.
Insert(t, r) ==
    IF r \in DOMAIN t THEN [t EXCEPT ![r] = @ + 1] ELSE t @@ (r :> 1)

\* DELETE of the rows in S.
Delete(t, S) == [r \in (DOMAIN t) \ S |-> t[r]]

\* UPDATE of row r to row r2 (every stored copy of it).
Update(t, r, r2) ==
    IF r = r2 THEN t
    ELSE LET rest == Delete(t, {r})
         IN  IF r2 \in DOMAIN rest THEN [rest EXCEPT ![r2] = @ + t[r]]
             ELSE rest @@ (r2 :> t[r])

\* Number of stored rows, copies counted.
RECURSIVE SumCopies(_, _)
SumCopies(t, S) ==
    IF S = {} THEN 0
    ELSE LET r == CHOOSE x \in S : TRUE
         IN  t[r] + SumCopies(t, S \ {r})

CountRows(t) == SumCopies(t, DOMAIN t)

\* The database: the seven tables of the schema.
Db == [users |-> users, planets |-> planets, people |-> people, vehicles |-> vehicles,
       favorite_planets |-> favorite_planets, favorite_people |-> favorite_people,
       favorite_vehicles |-> favorite_vehicles]

UserIds(db) == {r.id : r \in Rows(db.users)}

PlanetIds(db) == {r.id : r \in Rows(db.planets)}

PersonIds(db) == {r.id : r \in Rows(db.people)}

VehicleIds(db) == {r.id : r \in Rows(db.vehicles)}

Max(S) == CHOOSE m \in S : \A x \in S : x <= m

\* Integer primary key left unset: the store assigns the next id.
AutoId(taken) == IF taken = {} THEN 1 ELSE Max(taken) + 1

\* The id a new row gets: the one supplied, else the store's next one.
NewId(id, taken) == IF id = Null THEN AutoId(taken) ELSE Get(id)

(* ------------------- declared constraints, per table ------------------ *)
(* Each is a predicate on a database: what the store enforces for the     *)
(* column declarations of one model class.                                *)

\* users.id: primary_key=True.
User_pk(db) ==
    /\ \A r \in Rows(db.users) : db.users[r] = 1
    /\ \A r1, r2 \in Rows(db.users) : r1.id = r2.id => r1 = r2

\* Mutant: users.email declared without unique=True.
User_email_unique_missing(db) == TRUE

\* users.email: unique=True.
User_email_unique(db) ==
    \A r1, r2 \in Rows(db.users) :
        (r1.email = r2.email /\ r1.email # Null) => r1 = r2

\* users.email, users.password, users.is_active: nullable=False.
User_notnull(db) ==
    \A r \in Rows(db.users) :
        r.email # Null /\ r.password # Null /\ r.is_active # Null

\* planets.id: primary_key=True.
Planet_pk(db) ==
    /\ \A r \in Rows(db.planets) : db.planets[r] = 1
    /\ \A r1, r2 \in Rows(db.planets) : r1.id = r2.id => r1 = r2

\* planets.name: unique=True, nullable=False.
Planet_name_unique(db) ==
    /\ \A r \in Rows(db.planets) : r.name # Null
    /\ \A r1, r2 \in Rows(db.planets) : r1.name = r2.name => r1 = r2

\* people.id: primary_key=True.
Person_pk(db) ==
    /\ \A r \in Rows(db.people) : db.people[r] = 1
    /\ \A r1, r2 \in Rows(db.people) : r1.id = r2.id => r1 = r2

\* people.name: nullable=False (and not unique).
Person_notnull(db) == \A r \in Rows(db.people) : r.name # Null

\* Mutant: people.homeworld_id declared as a plain integer column.
Person_homeworld_fk_missing(db) == TRUE

\* people.homeworld_id: ForeignKey("planets.id"), nullable=True.
Person_homeworld_fk(db) ==
    \A r \in Rows(db.people) : r.homeworld_id \subseteq PlanetIds(db)

\* vehicles.id: primary_key=True.
Vehicle_pk(db) ==
    /\ \A r \in Rows(db.vehicles) : db.vehicles[r] = 1
    /\ \A r1, r2 \in Rows(db.vehicles) : r1.id = r2.id => r1 = r2

\* Mutant: vehicles.name declared like people.name, nullable=False only.
Vehicle_name_not_unique(db) == \A r \in Rows(db.vehicles) : r.name # Null

\* vehicles.name: unique=True, nullable=False.
Vehicle_name_unique(db) ==
    /\ \A r \in Rows(db.vehicles) : r.name # Null
    /\ \A r1, r2 \in Rows(db.vehicles) : r1.name = r2.name => r1 = r2

\* vehicles.model, vehicles.manufacturer: nullable=False.
Vehicle_notnull(db) ==
    \A r \in Rows(db.vehicles) : r.model # Null /\ r.manufacturer # Null

\* favorite_planets: composite primary key (user_id, planet_id).
FavoritePlanet_pk(db) == \A r \in Rows(db.favorite_planets) : db.favorite_planets[r] = 1

\* Mutant: the planet_id column declared without its ForeignKey.
FavoritePlanet_fk_user_only(db) ==
    \A r \in Rows(db.favorite_planets) : r.user_id \in UserIds(db)

\* favorite_planets.user_id -> users.id, favorite_planets.planet_id -> planets.id.
FavoritePlanet_fk(db) ==
    \A r \in Rows(db.favorite_planets) :
        r.user_id \in UserIds(db) /\ r.planet_id \in PlanetIds(db)

\* Mutant: favorite_people declared without its primary key.
FavoritePerson_pk_missing(db) == TRUE

\* favorite_people: composite primary key (user_id, person_id).
FavoritePerson_pk(db) == \A r \in Rows(db.favorite_people) : db.favorite_people[r] = 1

\* favorite_people.user_id -> users.id, favorite_people.person_id -> people.id.
FavoritePerson_fk(db) ==
    \A r \in Rows(db.favorite_people) :
        r.user_id \in UserIds(db) /\ r.person_id \in PersonIds(db)

\* favorite_vehicles: composite primary key (user_id, vehicle_id).
FavoriteVehicle_pk(db) == \A r \in Rows(db.favorite_vehicles) : db.favorite_vehicles[r] = 1

\* favorite_vehicles.user_id -> users.id, favorite_vehicles.vehicle_id -> vehicles.id.
FavoriteVehicle_fk(db) ==
    \A r \in Rows(db.favorite_vehicles) :
        r.user_id \in UserIds(db) /\ r.vehicle_id \in VehicleIds(db)

\* The declared constraints that a database violates, by the name the store
\* reports in its error.
Violated(db) ==
    UNION {
        IF User_pk(db) THEN {} ELSE {"users.id PRIMARY KEY"},
        IF User_email_unique(db) THEN {} ELSE {"users.email UNIQUE"},
        IF User_notnull(db) THEN {} ELSE {"users NOT NULL"},
        IF Planet_pk(db) THEN {} ELSE {"planets.id PRIMARY KEY"},
        IF Planet_name_unique(db) THEN {} ELSE {"planets.name UNIQUE"},
        IF Person_pk(db) THEN {} ELSE {"people.id PRIMARY KEY"},
        IF Person_notnull(db) THEN {} ELSE {"people NOT NULL"},
        IF Person_homeworld_fk(db) THEN {} ELSE {"people.homeworld_id FOREIGN KEY"},
        IF Vehicle_pk(db) THEN {} ELSE {"vehicles.id PRIMARY KEY"},
        IF Vehicle_name_unique(db) THEN {} ELSE {"vehicles.name UNIQUE"},
        IF Vehicle_notnull(db) THEN {} ELSE {"vehicles NOT NULL"},
        IF FavoritePlanet_pk(db) THEN {} ELSE {"favorite_planets PRIMARY KEY"},
        IF FavoritePlanet_fk(db) THEN {} ELSE {"favorite_planets FOREIGN KEY"},
        IF FavoritePerson_pk(db) THEN {} ELSE {"favorite_people PRIMARY KEY"},
        IF FavoritePerson_fk(db) THEN {} ELSE {"favorite_people FOREIGN KEY"},
        IF FavoriteVehicle_pk(db) THEN {} ELSE {"favorite_vehicles PRIMARY KEY"},
        IF FavoriteVehicle_fk(db) THEN {} ELSE {"favorite_vehicles FOREIGN KEY"}}

\* Everything the schema declares: a transaction commits only to a database
\* that satisfies it.
Constraints(db) == Violated(db) = {}

(* ------------------------- rows, as the ORM builds them --------------- *)

\* A new User.  is_active: default=True fills an unset value; subscription_date:
\* server_default=func.now() fills an unset value with the server's clock.
\* first_name and last_name are optional and left unset.
User_new(id, email, password, is_active, subscription_date, now) ==
    [id |-> id, email |-> email, password |-> password,
     first_name |-> Null, last_name |-> Null,
     subscription_date |-> IF subscription_date = Null THEN Val(now) ELSE subscription_date,
     is_active |-> IF is_active = Null THEN Val(TRUE) ELSE is_active]

\* A new Planet: the descriptive columns are optional text, left unset.
Planet_new(id, name) ==
    [id |-> id, name |-> name, diameter |-> Null, rotation_period |-> Null,
     orbital_period |-> Null, gravity |-> Null, population |-> Null,
     climate |-> Null, terrain |-> Null, surface_water |-> Null]

\* A new Person: optional descriptive text left unset, optional homeworld.
Person_new(id, name, homeworld_id) ==
    [id |-> id, name |-> name, height |-> Null, mass |-> Null, hair_color |-> Null,
     skin_color |-> Null, eye_color |-> Null, birth_year |-> Null, gender |-> Null,
     homeworld_id |-> homeworld_id]

\* A new Vehicle: name, model and manufacturer are required, the rest optional.
Vehicle_new(id, name, model, manufacturer) ==
    [id |-> id, name |-> name, model |-> model, manufacturer |-> manufacturer,
     cost_in_credits |-> Null, length |-> Null, max_atmosphering_speed |-> Null,
     crew |-> Null, passengers |-> Null, cargo_capacity |-> Null,
     consumables |-> Null, vehicle_class |-> Null]

FavoritePlanet_new(user_id, planet_id) == [user_id |-> user_id, planet_id |-> planet_id]

FavoritePerson_new(user_id, person_id) == [user_id |-> user_id, person_id |-> person_id]

FavoriteVehicle_new(user_id, vehicle_id) == [user_id |-> user_id, vehicle_id |-> vehicle_id]

(* ----------------------- relationships (ORM loads) -------------------- *)

\* User.favorite_planets / favorite_people / favorite_vehicles.
User_favorite_planets(db, u) == {f \in Rows(db.favorite_planets) : f.user_id = u}

User_favorite_people(db, u) == {f \in Rows(db.favorite_people) : f.user_id = u}

User_favorite_vehicles(db, u) == {f \in Rows(db.favorite_vehicles) : f.user_id = u}

\* Planet.favorited_by and Planet.residents.
Planet_favorited_by(db, p) == {f \in Rows(db.favorite_planets) : f.planet_id = p}

Planet_residents(db, p) == {r \in Rows(db.people) : r.homeworld_id = Val(p)}

\* Person.favorited_by.
Person_favorited_by(db, q) == {f \in Rows(db.favorite_people) : f.person_id = q}

\* Vehicle.favorited_by.
Vehicle_favorited_by(db, v) == {f \in Rows(db.favorite_vehicles) : f.vehicle_id = v}

(* ------------------- session.delete(obj): what is flushed ------------- *)

\* The people table with the given rows detached from their homeworld
\* (UPDATE people SET homeworld_id = NULL).
RECURSIVE Detach(_, _)
Detach(t, S) ==
    IF S = {} THEN t
    ELSE LET r == CHOOSE x \in S : TRUE
         IN  Detach(Update(t, r, [r EXCEPT !.homeworld_id = Null]), S \ {r})

\* Mutant: favorite_vehicles declared without its delete cascade.
User_delete_vehicles_kept(db, u) ==
    [db EXCEPT
        !.favorite_planets = Delete(@, User_favorite_planets(db, u)),
        !.favorite_people = Delete(@, User_favorite_people(db, u)),
        !.users = Delete(@, {r \in Rows(db.users) : r.id = u})]

\* delete(User): cascade="all, delete-orphan" on the three favorite collections
\* deletes the user's association rows, then the users row.
User_delete(db, u) ==
    [db EXCEPT
        !.favorite_planets = Delete(@, User_favorite_planets(db, u)),
        !.favorite_people = Delete(@, User_favorite_people(db, u)),
        !.favorite_vehicles = Delete(@, User_favorite_vehicles(db, u)),
        !.users = Delete(@, {r \in Rows(db.users) : r.id = u})]

\* Mutant: residents declared with cascade="all, delete-orphan".
Planet_delete_residents_too(db, p) ==
    [db EXCEPT
        !.favorite_planets = Delete(@, Planet_favorited_by(db, p)),
        !.people = Delete(@, Planet_residents(db, p)),
        !.planets = Delete(@, {r \in Rows(db.planets) : r.id = p})]

\* delete(Planet): favorited_by cascades the delete; residents carries no delete
\* cascade, so the ORM detaches each resident (homeworld_id = NULL) and keeps it.
Planet_delete(db, p) ==
    [db EXCEPT
        !.favorite_planets = Delete(@, Planet_favorited_by(db, p)),
        !.people = Detach(@, Planet_residents(db, p)),
        !.planets = Delete(@, {r \in Rows(db.planets) : r.id = p})]

\* delete(Person): favorited_by cascades the delete; homeworld is many-to-one
\* and untouched.
Person_delete(db, q) ==
    [db EXCEPT
        !.favorite_people = Delete(@, Person_favorited_by(db, q)),
        !.people = Delete(@, {r \in Rows(db.people) : r.id = q})]

\* delete(Vehicle): favorited_by cascades the delete.
Vehicle_delete(db, v) ==
    [db EXCEPT
        !.favorite_vehicles = Delete(@, Vehicle_favorited_by(db, v)),
        !.vehicles = Delete(@, {r \in Rows(db.vehicles) : r.id = v})]

\* Mutant: FavoritePlanet.planet declared with cascade="all", so that deleting
\* the association row deletes the planet, and with it its other favorites.
FavoritePlanet_delete_cascading(db, u, p) == Planet_delete(db, p)

\* delete(FavoritePlanet) and its like: user / planet are many-to-one sides with
\* the default cascade (save-update, merge): only the association row goes.
FavoritePlanet_delete(db, u, p) ==
    [db EXCEPT !.favorite_planets = Delete(@, {FavoritePlanet_new(u, p)})]

FavoritePerson_delete(db, u, q) ==
    [db EXCEPT !.favorite_people = Delete(@, {FavoritePerson_new(u, q)})]

FavoriteVehicle_delete(db, u, v) ==
    [db EXCEPT !.favorite_vehicles = Delete(@, {FavoriteVehicle_new(u, v)})]

\* Association rows in the three favorite tables.
FavoriteCount(db) ==
    CountRows(db.favorite_planets) + CountRows(db.favorite_people)
        + CountRows(db.favorite_vehicles)

\* Rows in the whole database.
TotalRows(db) ==
    CountRows(db.users) + CountRows(db.planets) + CountRows(db.people)
        + CountRows(db.vehicles) + FavoriteCount(db)

(* ------------------------------ commit -------------------------------- *)

\* People whose homeworld_id the unit of work set to NULL.
Detached(db) ==
    Cardinality({r \in Rows(Db.people) : r.homeworld_id # Null}
                    \ {r \in Rows(db.people) : r.homeworld_id # Null})
        - Cardinality({r \in Rows(db.people) : r.homeworld_id # Null}
                          \ {r \in Rows(Db.people) : r.homeworld_id # Null})

\* session.commit(): the store accepts the unit of work if every declared
\* constraint holds of the result, else raises IntegrityError and the
\* transaction is rolled back.  last is what the caller observes: the
\* operation, its outcome, how many association rows it removed, how many
\* people it detached from their homeworld, and the constraints an
\* IntegrityError reports.
\* (A commit that would store more than MaxRows rows is left out of the model.)
Commit(op, db) ==
    \E new \in {db} : \E error \in {Violated(new)} :
        IF error = {}
        THEN /\ TotalRows(new) <= MaxRows
             /\ users' = new.users
             /\ planets' = new.planets
             /\ people' = new.people
             /\ vehicles' = new.vehicles
             /\ favorite_planets' = new.favorite_planets
             /\ favorite_people' = new.favorite_people
             /\ favorite_vehicles' = new.favorite_vehicles
             /\ last' = [op |-> op, status |-> "ok",
                         removed |-> IF FavoriteCount(new) < FavoriteCount(Db)
                                     THEN FavoriteCount(Db) - FavoriteCount(new) ELSE 0,
                         detached |-> IF op = "delete_planet" THEN Detached(new) ELSE 0,
                         error |-> {}]
        ELSE /\ UNCHANGED <<users, planets, people, vehicles,
                            favorite_planets, favorite_people, favorite_vehicles>>
             /\ last' = [op |-> op, status |-> "IntegrityError", removed |-> 0,
                         detached |-> 0, error |-> error]

(* ------------------------------ actions ------------------------------- *)
(* One action per unit of work: build or load the object, change it,       *)
(* commit.  An update or delete acts on a loaded object, so on an existing *)
(* row.                                                                    *)

UserRow(u) == CHOOSE r \in Rows(users) : r.id = u

PlanetRow(p) == CHOOSE r \in Rows(planets) : r.id = p

PersonRow(q) == CHOOSE r \in Rows(people) : r.id = q

VehicleRow(v) == CHOOSE r \in Rows(vehicles) : r.id = v

\* db.session.add(User(...)); commit.
InsertUser(id, email, password, is_active, subscription_date, now) ==
    /\ NewId(id, UserIds(Db)) \in Ids
    /\ Commit("insert_user",
              [Db EXCEPT !.users = Insert(@, User_new(NewId(id, UserIds(Db)), email,
                                    password, is_active, subscription_date, now))])

\* user.email = email; commit.
UpdateUserEmail(u, email) ==
    /\ u \in UserIds(Db)
    /\ Commit("update_user",
              [Db EXCEPT !.users = Update(@, UserRow(u), [UserRow(u) EXCEPT !.email = email])])

\* db.session.delete(user); commit.
DeleteUser(u) ==
    /\ u \in UserIds(Db)
    /\ Commit("delete_user", User_delete(Db, u))

\* db.session.add(Planet(...)); commit.
InsertPlanet(id, name) ==
    /\ NewId(id, PlanetIds(Db)) \in Ids
    /\ Commit("insert_planet",
              [Db EXCEPT !.planets = Insert(@, Planet_new(NewId(id, PlanetIds(Db)), name))])

\* planet.name = name; commit.
RenamePlanet(p, name) ==
    /\ p \in PlanetIds(Db)
    /\ Commit("update_planet",
              [Db EXCEPT !.planets = Update(@, PlanetRow(p), [PlanetRow(p) EXCEPT !.name = name])])

\* db.session.delete(planet); commit.
DeletePlanet(p) ==
    /\ p \in PlanetIds(Db)
    /\ Commit("delete_planet", Planet_delete(Db, p))

\* db.session.add(Person(...)); commit.
InsertPerson(id, name, homeworld_id) ==
    /\ NewId(id, PersonIds(Db)) \in Ids
    /\ Commit("insert_person",
              [Db EXCEPT !.people = Insert(@, Person_new(NewId(id, PersonIds(Db)), name,
                                     homeworld_id))])

\* person.name = name; commit.
RenamePerson(q, name) ==
    /\ q \in PersonIds(Db)
    /\ Commit("update_person",
              [Db EXCEPT !.people = Update(@, PersonRow(q), [PersonRow(q) EXCEPT !.name = name])])

\* person.homeworld_id = homeworld_id; commit.
SetHomeworld(q, homeworld_id) ==
    /\ q \in PersonIds(Db)
    /\ Commit("update_homeworld",
              [Db EXCEPT !.people = Update(@, PersonRow(q),
                                     [PersonRow(q) EXCEPT !.homeworld_id = homeworld_id])])

\* db.session.delete(person); commit.
DeletePerson(q) ==
    /\ q \in PersonIds(Db)
    /\ Commit("delete_person", Person_delete(Db, q))

\* db.session.add(Vehicle(...)); commit.
InsertVehicle(id, name, model, manufacturer) ==
    /\ NewId(id, VehicleIds(Db)) \in Ids
    /\ Commit("insert_vehicle",
              [Db EXCEPT !.vehicles = Insert(@, Vehicle_new(NewId(id, VehicleIds(Db)), name,
                                       model, manufacturer))])

\* vehicle.name = name; commit.
RenameVehicle(v, name) ==
    /\ v \in VehicleIds(Db)
    /\ Commit("update_vehicle",
              [Db EXCEPT !.vehicles = Update(@, VehicleRow(v), [VehicleRow(v) EXCEPT !.name = name])])

\* db.session.delete(vehicle); commit.
DeleteVehicle(v) ==
    /\ v \in VehicleIds(Db)
    /\ Commit("delete_vehicle", Vehicle_delete(Db, v))

\* db.session.add(FavoritePlanet(user_id=u, planet_id=p)); commit.
InsertFavoritePlanet(u, p) ==
    /\ Commit("insert_favorite_planet",
              [Db EXCEPT !.favorite_planets = Insert(@, FavoritePlanet_new(u, p))])

\* db.session.delete(favorite); commit.
DeleteFavoritePlanet(u, p) ==
    /\ FavoritePlanet_new(u, p) \in Rows(favorite_planets)
    /\ Commit("delete_favorite_planet", FavoritePlanet_delete(Db, u, p))

InsertFavoritePerson(u, q) ==
    /\ Commit("insert_favorite_person",
              [Db EXCEPT !.favorite_people = Insert(@, FavoritePerson_new(u, q))])

DeleteFavoritePerson(u, q) ==
    /\ FavoritePerson_new(u, q) \in Rows(favorite_people)
    /\ Commit("delete_favorite_person", FavoritePerson_delete(Db, u, q))

InsertFavoriteVehicle(u, v) ==
    /\ Commit("insert_favorite_vehicle",
              [Db EXCEPT !.favorite_vehicles = Insert(@, FavoriteVehicle_new(u, v))])

DeleteFavoriteVehicle(u, v) ==
    /\ FavoriteVehicle_new(u, v) \in Rows(favorite_vehicles)
    /\ Commit("delete_favorite_vehicle", FavoriteVehicle_delete(Db, u, v))

(* ---------------------------- serialize() ---------------------------- *)

\* A Python list built from a query result: the rows' values in the order the
\* store returned them, which nothing in the schema fixes.
RECURSIVE ListOf(_)
ListOf(S) ==
    IF S = {} THEN <<>>
    ELSE LET x == CHOOSE y \in S : TRUE
         IN  <<x>> \o ListOf(S \ {x})

\* Decimal digits of n, left-padded with zeros to the given width.
Pad(n, width) ==
    LET d == ToString(n)
    IN  IF Len(d) >= width THEN d
        ELSE IF width - Len(d) = 1 THEN "0" \o d
        ELSE IF width - Len(d) = 2 THEN "00" \o d
        ELSE "000" \o d

\* datetime.isoformat(): YYYY-MM-DDTHH:MM:SS.
isoformat(dt) ==
    Pad(dt.year, 4) \o "-" \o Pad(dt.month, 2) \o "-" \o Pad(dt.day, 2) \o "T"
        \o Pad(dt.hour, 2) \o ":" \o Pad(dt.minute, 2) \o ":" \o Pad(dt.second, 2)

\* Mutant: favorite_person_ids built from the favorite_planets collection.
User_serialize_person_ids_from_planets(db, r) ==
    [id |-> r.id,
     email |-> r.email,
     first_name |-> r.first_name,
     last_name |-> r.last_name,
     subscription_date |->
        IF r.subscription_date # Null THEN Val(isoformat(Get(r.subscription_date))) ELSE Null,
     is_active |-> r.is_active,
     favorite_planet_ids |-> ListOf({fav.planet_id : fav \in User_favorite_planets(db, r.id)}),
     favorite_person_ids |-> ListOf({fav.planet_id : fav \in User_favorite_planets(db, r.id)}),
     favorite_vehicle_ids |-> ListOf({fav.vehicle_id : fav \in User_favorite_vehicles(db, r.id)})]

\* User.serialize(): the password column is left out.
User_serialize(db, r) ==
    [id |-> r.id,
     email |-> r.email,
     first_name |-> r.first_name,
     last_name |-> r.last_name,
     subscription_date |->
        IF r.subscription_date # Null THEN Val(isoformat(Get(r.subscription_date))) ELSE Null,
     is_active |-> r.is_active,
     favorite_planet_ids |-> ListOf({fav.planet_id : fav \in User_favorite_planets(db, r.id)}),
     favorite_person_ids |-> ListOf({fav.person_id : fav \in User_favorite_people(db, r.id)}),
     favorite_vehicle_ids |-> ListOf({fav.vehicle_id : fav \in User_favorite_vehicles(db, r.id)})]

\* Mutant: resident_ids built from the favorited_by collection.
Planet_serialize_ids_from_favorited_by(db, r) ==
    [id |-> r.id, name |-> r.name, diameter |-> r.diameter,
     rotation_period |-> r.rotation_period, orbital_period |-> r.orbital_period,
     gravity |-> r.gravity, population |-> r.population, climate |-> r.climate,
     terrain |-> r.terrain, surface_water |-> r.surface_water,
     resident_ids |-> ListOf({fav.user_id : fav \in Planet_favorited_by(db, r.id)})]

\* Planet.serialize().
Planet_serialize(db, r) ==
    [id |-> r.id, name |-> r.name, diameter |-> r.diameter,
     rotation_period |-> r.rotation_period, orbital_period |-> r.orbital_period,
     gravity |-> r.gravity, population |-> r.population, climate |-> r.climate,
     terrain |-> r.terrain, surface_water |-> r.surface_water,
     resident_ids |-> ListOf({resident.id : resident \in Planet_residents(db, r.id)})]

\* Person.serialize().
Person_serialize(r) ==
    [id |-> r.id, name |-> r.name, height |-> r.height, mass |-> r.mass,
     hair_color |-> r.hair_color, skin_color |-> r.skin_color,
     eye_color |-> r.eye_color, birth_year |-> r.birth_year, gender |-> r.gender,
     homeworld_id |-> r.homeworld_id]

\* Vehicle.serialize().
Vehicle_serialize(r) ==
    [id |-> r.id, name |-> r.name, model |-> r.model, manufacturer |-> r.manufacturer,
     cost_in_credits |-> r.cost_in_credits, length |-> r.length,
     max_atmosphering_speed |-> r.max_atmosphering_speed, crew |-> r.crew,
     passengers |-> r.passengers, cargo_capacity |-> r.cargo_capacity,
     consumables |-> r.consumables, vehicle_class |-> r.vehicle_class]

\* FavoritePlanet.serialize(), FavoritePerson.serialize(), FavoriteVehicle.serialize().
FavoritePlanet_serialize(r) == [user_id |-> r.user_id, planet_id |-> r.planet_id]

FavoritePerson_serialize(r) == [user_id |-> r.user_id, person_id |-> r.person_id]

FavoriteVehicle_serialize(r) == [user_id |-> r.user_id, vehicle_id |-> r.vehicle_id]

(* --------------------------- specifications --------------------------- *)

\* db.create_all(): seven empty tables.
Init ==
    /\ users = EmptyTable
    /\ planets = EmptyTable
    /\ people = EmptyTable
    /\ vehicles = EmptyTable
    /\ favorite_planets = EmptyTable
    /\ favorite_people = EmptyTable
    /\ favorite_vehicles = EmptyTable
    /\ last = [op |-> "create_all", status |-> "ok", removed |-> 0, detached |-> 0,
               error |-> {}]

\* Every unit of work, with every input.
Next ==
    \/ \E id \in Opt(Ids), email \in Opt(Emails), password \in Opt(Passwords),
          is_active \in Opt(BOOLEAN), subscription_date \in Opt(Times), now \in Times :
            InsertUser(id, email, password, is_active, subscription_date, now)
    \/ \E u \in Ids, email \in Opt(Emails) : UpdateUserEmail(u, email)
    \/ \E u \in Ids : DeleteUser(u)
    \/ \E id \in Opt(Ids), name \in Opt(Names) : InsertPlanet(id, name)
    \/ \E p \in Ids, name \in Opt(Names) : RenamePlanet(p, name)
    \/ \E p \in Ids : DeletePlanet(p)
    \/ \E id \in Opt(Ids), name \in Opt(PersonNames), homeworld_id \in Opt(Ids) :
            InsertPerson(id, name, homeworld_id)
    \/ \E q \in Ids, name \in Opt(PersonNames) : RenamePerson(q, name)
    \/ \E q \in Ids, homeworld_id \in Opt(Ids) : SetHomeworld(q, homeworld_id)
    \/ \E q \in Ids : DeletePerson(q)
    \/ \E id \in Opt(Ids), name \in Opt(VehicleNames), model \in Opt(Models),
          manufacturer \in Opt(Manufacturers) :
            InsertVehicle(id, name, model, manufacturer)
    \/ \E v \in Ids, name \in Opt(VehicleNames) : RenameVehicle(v, name)
    \/ \E v \in Ids : DeleteVehicle(v)
    \/ \E u \in Ids, p \in Ids : InsertFavoritePlanet(u, p)
    \/ \E u \in Ids, p \in Ids : DeleteFavoritePlanet(u, p)
    \/ \E u \in Ids, q \in Ids : InsertFavoritePerson(u, q)
    \/ \E u \in Ids, q \in Ids : DeleteFavoritePerson(u, q)
    \/ \E u \in Ids, v \in Ids : InsertFavoriteVehicle(u, v)
    \/ \E u \in Ids, v \in Ids : DeleteFavoriteVehicle(u, v)

Spec == Init /\ [][Next]_vars

(* The whole machine is too large to enumerate with two ids per table, so   *)
(* each property is checked on the part of it that can change what the      *)
(* property reads: the units of work below are those of Next, restricted to *)
(* some tables and, where a column plays no role, to one value of it.       *)

\* One address per user id and one name per entity id, for the parts where
\* the text columns play no role: distinct rows get distinct values.
EmailFor(n) == "user" \o ToString(n) \o "@rebels.org"

NameFor(n) == "name-" \o ToString(n)

\* Inserts and deletes of users, of the three reference entities and of the
\* three kinds of favorite; ids are left to the store.
NextFavorites ==
    \/ InsertUser(Null, Val(EmailFor(AutoId(UserIds(Db)))), Val("pbkdf2$hash"), Null, Null, Epoch)
    \/ \E u \in Ids : DeleteUser(u)
    \/ InsertPlanet(Null, Val(NameFor(AutoId(PlanetIds(Db)))))
    \/ \E p \in Ids : DeletePlanet(p)
    \/ InsertPerson(Null, Val("Luke Skywalker"), Null)
    \/ \E q \in Ids : DeletePerson(q)
    \/ InsertVehicle(Null, Val(NameFor(AutoId(VehicleIds(Db)))), Val("t-47 airspeeder"),
                     Val("Incom corporation"))
    \/ \E v \in Ids : DeleteVehicle(v)
    \/ \E u \in Ids, p \in Ids : InsertFavoritePlanet(u, p)
    \/ \E u \in Ids, p \in Ids : DeleteFavoritePlanet(u, p)
    \/ \E u \in Ids, q \in Ids : InsertFavoritePerson(u, q)
    \/ \E u \in Ids, q \in Ids : DeleteFavoritePerson(u, q)
    \/ \E u \in Ids, v \in Ids : InsertFavoriteVehicle(u, v)
    \/ \E u \in Ids, v \in Ids : DeleteFavoriteVehicle(u, v)

SpecFavorites == Init /\ [][NextFavorites]_vars

\* Planets, their residents and their favorites: every unit of work on planets,
\* people and favorite_planets, and the users the favorites need.
NextHomeworld ==
    \/ InsertUser(Null, Val(EmailFor(AutoId(UserIds(Db)))), Val("pbkdf2$hash"), Null, Null, Epoch)
    \/ \E u \in Ids : DeleteUser(u)
    \/ InsertPlanet(Null, Val(NameFor(AutoId(PlanetIds(Db)))))
    \/ \E p \in Ids : DeletePlanet(p)
    \/ \E homeworld_id \in Opt(Ids) : InsertPerson(Null, Val("Luke Skywalker"), homeworld_id)
    \/ \E q \in Ids, homeworld_id \in Opt(Ids) : SetHomeworld(q, homeworld_id)
    \/ \E q \in Ids : DeletePerson(q)
    \/ \E u \in Ids, p \in Ids : InsertFavoritePlanet(u, p)
    \/ \E u \in Ids, p \in Ids : DeleteFavoritePlanet(u, p)

SpecHomeworld == Init /\ [][NextHomeworld]_vars

\* The users table alone, with every input; the caller's clock reads Epoch and
\* the server's reads Later.
NextUsers ==
    \/ \E id \in Opt(Ids), email \in Opt(Emails), password \in Opt(Passwords),
          is_active \in Opt(BOOLEAN), subscription_date \in Opt({Epoch}) :
            InsertUser(id, email, password, is_active, subscription_date, Later)
    \/ \E u \in Ids, email \in Opt(Emails) : UpdateUserEmail(u, email)
    \/ \E u \in Ids : DeleteUser(u)

SpecUsers == Init /\ [][NextUsers]_vars

\* The named reference entities: inserts, renames and deletes of planets,
\* people and vehicles.
NextNames ==
    \/ \E name \in Opt(Names) : InsertPlanet(Null, name)
    \/ \E p \in Ids, name \in Opt(Names) : RenamePlanet(p, name)
    \/ \E p \in Ids : DeletePlanet(p)
    \/ \E name \in Opt(PersonNames) : InsertPerson(Null, name, Null)
    \/ \E q \in Ids, name \in Opt(PersonNames) : RenamePerson(q, name)
    \/ \E q \in Ids : DeletePerson(q)
    \/ \E name \in Opt(VehicleNames), model \in Opt(Models),
          manufacturer \in Opt(Manufacturers) :
            InsertVehicle(Null, name, model, manufacturer)
    \/ \E v \in Ids, name \in Opt(VehicleNames) : RenameVehicle(v, name)
    \/ \E v \in Ids : DeleteVehicle(v)

SpecNames == Init /\ [][NextNames]_vars

(* ------------------------------ properties ---------------------------- *)

\* The seven tables, as one tuple.
tables == <<users, planets, people, vehicles,
            favorite_planets, favorite_people, favorite_vehicles>>

\* C1, state part: every favorite row names an existing user and an existing
\* planet, person or vehicle.
C1_RowsReferenceExisting ==
    /\ \A f \in DOMAIN favorite_planets :
          /\ \E r \in DOMAIN users : r.id = f.user_id
          /\ \E r \in DOMAIN planets : r.id = f.planet_id
    /\ \A f \in DOMAIN favorite_people :
          /\ \E r \in DOMAIN users : r.id = f.user_id
          /\ \E r \in DOMAIN people : r.id = f.person_id
    /\ \A f \in DOMAIN favorite_vehicles :
          /\ \E r \in DOMAIN users : r.id = f.user_id
          /\ \E r \in DOMAIN vehicles : r.id = f.vehicle_id

\* C1, step part: inserting a favorite row that names a nonexistent user or
\* entity raises IntegrityError and changes no table.
C1_DanglingInsertRejected ==
    \/ last'.status = "IntegrityError" /\ UNCHANGED tables
    \/ last'.op \notin {"insert_favorite_planet", "insert_favorite_person",
                       "insert_favorite_vehicle"}
    \/ \A u \in Ids, e \in Ids :
           /\ ~ (/\ last'.op = "insert_favorite_planet"
                 /\ \/ \A r \in DOMAIN users : r.id # u
                    \/ \A r \in DOMAIN planets : r.id # e
                 /\ InsertFavoritePlanet(u, e))
           /\ ~ (/\ last'.op = "insert_favorite_person"
                 /\ \/ \A r \in DOMAIN users : r.id # u
                    \/ \A r \in DOMAIN people : r.id # e
                 /\ InsertFavoritePerson(u, e))
           /\ ~ (/\ last'.op = "insert_favorite_vehicle"
                 /\ \/ \A r \in DOMAIN users : r.id # u
                    \/ \A r \in DOMAIN vehicles : r.id # e
                 /\ InsertFavoriteVehicle(u, e))

\* C1: in every state reached by inserts and deletes of users, planets, people,
\* vehicles and favorite rows, every favorite row references an existing user
\* and an existing entity, and an insert of a favorite row naming a nonexistent
\* user or entity is rejected.
C1_ReferentialIntegrity ==
    []C1_RowsReferenceExisting /\ [][C1_DanglingInsertRejected]_vars

\* C1 witness: a favorite row is stored (a user's favorite person), and the
\* last unit of work, an insert into favorite_planets while no planet exists,
\* was rejected.
C1_Witness ==
    /\ favorite_people # EmptyTable
    /\ planets = EmptyTable
    /\ last.op = "insert_favorite_planet"
    /\ last.status = "IntegrityError"

\* C2, state part: no favorite table stores a (user_id, entity_id) pair twice.
C2_PairsStoredOnce ==
    /\ \A f \in DOMAIN favorite_planets : favorite_planets[f] = 1
    /\ \A f \in DOMAIN favorite_people : favorite_people[f] = 1
    /\ \A f \in DOMAIN favorite_vehicles : favorite_vehicles[f] = 1

\* C2, step part: inserting a stored pair raises IntegrityError and changes no
\* table.
C2_DuplicateRejected ==
    \/ last'.status = "IntegrityError" /\ UNCHANGED tables
    \/ last'.op \notin {"insert_favorite_planet", "insert_favorite_person",
                       "insert_favorite_vehicle"}
    \/ \A u \in Ids, e \in Ids :
           /\ ~ (/\ last'.op = "insert_favorite_planet"
                 /\ [user_id |-> u, planet_id |-> e] \in DOMAIN favorite_planets
                 /\ InsertFavoritePlanet(u, e))
           /\ ~ (/\ last'.op = "insert_favorite_person"
                 /\ [user_id |-> u, person_id |-> e] \in DOMAIN favorite_people
                 /\ InsertFavoritePerson(u, e))
           /\ ~ (/\ last'.op = "insert_favorite_vehicle"
                 /\ [user_id |-> u, vehicle_id |-> e] \in DOMAIN favorite_vehicles
                 /\ InsertFavoriteVehicle(u, e))

\* C2, step part: a pair not stored, of an existing user and an existing entity
\* one of which is already in a stored pair of that table (the entity with
\* another user, or the user with another entity), is accepted and stored.
C2_SharedAccepted ==
    last'.op \in {"insert_favorite_planet", "insert_favorite_person",
                  "insert_favorite_vehicle"} =>
        \A u \in Ids, e \in Ids :
            /\ (/\ last'.op = "insert_favorite_planet"
                /\ [user_id |-> u, planet_id |-> e] \notin DOMAIN favorite_planets
                /\ \E f \in DOMAIN favorite_planets : f.user_id = u \/ f.planet_id = e
                /\ \E r \in DOMAIN users : r.id = u
                /\ \E r \in DOMAIN planets : r.id = e
                /\ InsertFavoritePlanet(u, e))
                  => (/\ last'.status = "ok"
                      /\ DOMAIN favorite_planets' =
                            DOMAIN favorite_planets \cup {[user_id |-> u, planet_id |-> e]})
            /\ (/\ last'.op = "insert_favorite_person"
                /\ [user_id |-> u, person_id |-> e] \notin DOMAIN favorite_people
                /\ \E f \in DOMAIN favorite_people : f.user_id = u \/ f.person_id = e
                /\ \E r \in DOMAIN users : r.id = u
                /\ \E r \in DOMAIN people : r.id = e
                /\ InsertFavoritePerson(u, e))
                  => (/\ last'.status = "ok"
                      /\ DOMAIN favorite_people' =
                            DOMAIN favorite_people \cup {[user_id |-> u, person_id |-> e]})
            /\ (/\ last'.op = "insert_favorite_vehicle"
                /\ [user_id |-> u, vehicle_id |-> e] \notin DOMAIN favorite_vehicles
                /\ \E f \in DOMAIN favorite_vehicles : f.user_id = u \/ f.vehicle_id = e
                /\ \E r \in DOMAIN users : r.id = u
                /\ \E r \in DOMAIN vehicles : r.id = e
                /\ InsertFavoriteVehicle(u, e))
                  => (/\ last'.status = "ok"
                      /\ DOMAIN favorite_vehicles' =
                            DOMAIN favorite_vehicles \cup {[user_id |-> u, vehicle_id |-> e]})

\* C2: in each favorite table a (user_id, entity_id) pair appears at most once;
\* inserting a pair already present fails with a constraint violation and
\* leaves all tables unchanged, while the same entity for another user, or
\* another entity for the same user, is accepted.
C2_PairUniqueness ==
    []C2_PairsStoredOnce /\ [][C2_DuplicateRejected /\ C2_SharedAccepted]_vars

\* C2 witness: two users hold the same planet as favorite, each pair once, and
\* the last insert into favorite_planets was rejected: with both users and the
\* only planet paired already, it named a stored pair or nothing that exists.
C2_Witness ==
    /\ DOMAIN favorite_planets =
          {[user_id |-> 1, planet_id |-> 1], [user_id |-> 2, planet_id |-> 1]}
    /\ {r.id : r \in DOMAIN planets} = {1}
    /\ last.op = "insert_favorite_planet"
    /\ last.status = "IntegrityError"

\* C3, step part: a delete of a parent row succeeds and leaves no favorite row
\* that names it.
C3_ParentDeleteRemovesFavorites ==
    last'.op \in {"delete_user", "delete_planet", "delete_person", "delete_vehicle"} =>
        \A x \in Ids :
            /\ (last'.op = "delete_user" /\ DeleteUser(x)) =>
                  /\ last'.status = "ok"
                  /\ \A r \in DOMAIN users' : r.id # x
                  /\ \A f \in DOMAIN favorite_planets' : f.user_id # x
                  /\ \A f \in DOMAIN favorite_people' : f.user_id # x
                  /\ \A f \in DOMAIN favorite_vehicles' : f.user_id # x
            /\ (last'.op = "delete_planet" /\ DeletePlanet(x)) =>
                  /\ last'.status = "ok"
                  /\ \A r \in DOMAIN planets' : r.id # x
                  /\ \A f \in DOMAIN favorite_planets' : f.planet_id # x
            /\ (last'.op = "delete_person" /\ DeletePerson(x)) =>
                  /\ last'.status = "ok"
                  /\ \A r \in DOMAIN people' : r.id # x
                  /\ \A f \in DOMAIN favorite_people' : f.person_id # x
            /\ (last'.op = "delete_vehicle" /\ DeleteVehicle(x)) =>
                  /\ last'.status = "ok"
                  /\ \A r \in DOMAIN vehicles' : r.id # x
                  /\ \A f \in DOMAIN favorite_vehicles' : f.vehicle_id # x

\* C3: deleting a User removes every favorite_planets, favorite_people and
\* favorite_vehicles row with that user_id; deleting a Planet, Person or
\* Vehicle removes every row of the corresponding favorite table that names it.
C3_CascadeDelete == [][C3_ParentDeleteRemovesFavorites]_vars

\* C3 witness: the last unit of work deleted a user and two of its favorite
\* rows with it; the planet and the person they named are still there.
C3_Witness ==
    /\ last.op = "delete_user" /\ last.status = "ok" /\ last.removed = 2
    /\ planets # EmptyTable
    /\ people # EmptyTable
    /\ users = EmptyTable

\* The elements of a list.
Elems(l) == {l[i] : i \in 1..Len(l)}

\* C8: User.serialize() of every stored user has exactly the keys id, email,
\* first_name, last_name, subscription_date, is_active, favorite_planet_ids,
\* favorite_person_ids, favorite_vehicle_ids (no password), and each
\* favorite_*_ids list holds, once each, exactly the entity ids of the rows of
\* the corresponding favorite table with that user's id, all of them ids of
\* entities that exist.
C8_UserSerialize ==
    \A r \in DOMAIN users :
        LET s == User_serialize(Db, r)
            fp == {f.planet_id : f \in {g \in DOMAIN favorite_planets : g.user_id = r.id}}
            fq == {f.person_id : f \in {g \in DOMAIN favorite_people : g.user_id = r.id}}
            fv == {f.vehicle_id : f \in {g \in DOMAIN favorite_vehicles : g.user_id = r.id}}
        IN  /\ DOMAIN s = {"id", "email", "first_name", "last_name", "subscription_date",
                           "is_active", "favorite_planet_ids", "favorite_person_ids",
                           "favorite_vehicle_ids"}
            /\ "password" \notin DOMAIN s
            /\ s.id = r.id /\ s.email = r.email
            /\ Elems(s.favorite_planet_ids) = fp /\ Len(s.favorite_planet_ids) = Cardinality(fp)
            /\ Elems(s.favorite_person_ids) = fq /\ Len(s.favorite_person_ids) = Cardinality(fq)
            /\ Elems(s.favorite_vehicle_ids) = fv /\ Len(s.favorite_vehicle_ids) = Cardinality(fv)
            /\ \A x \in Elems(s.favorite_planet_ids) : \E e \in DOMAIN planets : e.id = x
            /\ \A x \in Elems(s.favorite_person_ids) : \E e \in DOMAIN people : e.id = x
            /\ \A x \in Elems(s.favorite_vehicle_ids) : \E e \in DOMAIN vehicles : e.id = x

\* C8 witness: a planet that was a user's favorite has just been deleted; the
\* user's serialization lists no planet any more and still lists the user's
\* favorite person.
C8_Witness ==
    /\ last.op = "delete_planet" /\ last.status = "ok" /\ last.removed = 1
    /\ \E r \in DOMAIN users :
          /\ User_serialize(Db, r).favorite_planet_ids = <<>>
          /\ User_serialize(Db, r).favorite_person_ids # <<>>
          /\ User_serialize(Db, r).subscription_date = Val("2024-05-04T09:30:00")

\* A table without the rows in S.
Without(t, S) == [r \in (DOMAIN t) \ S |-> t[r]]

\* C10, step part: a delete removes the row deleted and the favorite rows that
\* name it, and nothing else.
C10_DeleteFrame ==
    last'.op \in {"delete_user", "delete_planet", "delete_person", "delete_vehicle",
                 "delete_favorite_planet", "delete_favorite_person",
                 "delete_favorite_vehicle"} =>
        /\ \A x \in Ids :
            /\ (last'.op = "delete_user" /\ DeleteUser(x)) =>
                  /\ planets' = planets /\ people' = people /\ vehicles' = vehicles
                  /\ users' = Without(users, {r \in DOMAIN users : r.id = x})
                  /\ favorite_planets' =
                        Without(favorite_planets, {f \in DOMAIN favorite_planets : f.user_id = x})
                  /\ favorite_people' =
                        Without(favorite_people, {f \in DOMAIN favorite_people : f.user_id = x})
                  /\ favorite_vehicles' =
                        Without(favorite_vehicles, {f \in DOMAIN favorite_vehicles : f.user_id = x})
            /\ (last'.op = "delete_planet" /\ DeletePlanet(x)) =>
                  /\ users' = users /\ vehicles' = vehicles
                  /\ {r.id : r \in DOMAIN people'} = {r.id : r \in DOMAIN people}
                  /\ planets' = Without(planets, {r \in DOMAIN planets : r.id = x})
                  /\ favorite_planets' =
                        Without(favorite_planets, {f \in DOMAIN favorite_planets : f.planet_id = x})
                  /\ favorite_people' = favorite_people
                  /\ favorite_vehicles' = favorite_vehicles
            /\ (last'.op = "delete_person" /\ DeletePerson(x)) =>
                  /\ users' = users /\ planets' = planets /\ vehicles' = vehicles
                  /\ people' = Without(people, {r \in DOMAIN people : r.id = x})
                  /\ favorite_people' =
                        Without(favorite_people, {f \in DOMAIN favorite_people : f.person_id = x})
                  /\ favorite_planets' = favorite_planets
                  /\ favorite_vehicles' = favorite_vehicles
            /\ (last'.op = "delete_vehicle" /\ DeleteVehicle(x)) =>
                  /\ users' = users /\ planets' = planets /\ people' = people
                  /\ vehicles' = Without(vehicles, {r \in DOMAIN vehicles : r.id = x})
                  /\ favorite_vehicles' =
                        Without(favorite_vehicles, {f \in DOMAIN favorite_vehicles : f.vehicle_id = x})
                  /\ favorite_planets' = favorite_planets
                  /\ favorite_people' = favorite_people
        /\ \A u \in Ids, e \in Ids :
            /\ (last'.op = "delete_favorite_planet" /\ DeleteFavoritePlanet(u, e)) =>
                  /\ users' = users /\ planets' = planets /\ people' = people /\ vehicles' = vehicles
                  /\ favorite_planets' = Without(favorite_planets, {[user_id |-> u, planet_id |-> e]})
                  /\ favorite_people' = favorite_people
                  /\ favorite_vehicles' = favorite_vehicles
            /\ (last'.op = "delete_favorite_person" /\ DeleteFavoritePerson(u, e)) =>
                  /\ users' = users /\ planets' = planets /\ people' = people /\ vehicles' = vehicles
                  /\ favorite_people' = Without(favorite_people, {[user_id |-> u, person_id |-> e]})
                  /\ favorite_planets' = favorite_planets
                  /\ favorite_vehicles' = favorite_vehicles
            /\ (last'.op = "delete_favorite_vehicle" /\ DeleteFavoriteVehicle(u, e)) =>
                  /\ users' = users /\ planets' = planets /\ people' = people /\ vehicles' = vehicles
                  /\ favorite_vehicles' = Without(favorite_vehicles, {[user_id |-> u, vehicle_id |-> e]})
                  /\ favorite_planets' = favorite_planets
                  /\ favorite_people' = favorite_people

\* C10: cascades run from a parent to its association rows and no further:
\* deleting a User, or a single favorite row, leaves the planets, people,
\* vehicles and other users unchanged and every favorite row of every other
\* user unchanged; deleting a Planet, Person or Vehicle deletes no user, no
\* other entity and no favorite row of any other entity.
C10_CascadeStopsAtAssociation == [][C10_DeleteFrame]_vars

\* C10 witness: user 1 has just been deleted together with its favorite row;
\* user 2, the planet both had as favorite and user 2's favorite row remain.
C10_Witness ==
    /\ last.op = "delete_user" /\ last.status = "ok" /\ last.removed = 1
    /\ {r.id : r \in DOMAIN users} = {2}
    /\ planets # EmptyTable
    /\ DOMAIN favorite_planets = {[user_id |-> 2, planet_id |-> 1]}

\* C4, step part: a delete of a planet that has residents succeeds, keeps
\* every person, and leaves neither the planet nor a favorite_planets row for it.
C4_DeleteKeepsResidents ==
    \A p \in Ids :
        ( /\ last'.op = "delete_planet"
          /\ \E r \in DOMAIN people : r.homeworld_id = Val(p)
          /\ DeletePlanet(p) )
        => /\ last'.status = "ok"
           /\ {r.id : r \in DOMAIN people'} = {r.id : r \in DOMAIN people}
           /\ CountRows(people') = CountRows(people)
           /\ ~ \E r \in DOMAIN planets' : r.id = p
           /\ ~ \E f \in DOMAIN favorite_planets' : f.planet_id = p

\* C4: deleting a Planet that has residents succeeds and deletes no Person (the
\* set of Person ids is the same before and after the delete), while every
\* favorite_planets row for that planet is removed.
C4_PlanetDeleteWithResidents == [][C4_DeleteKeepsResidents]_vars

\* C4 witness: a planet with one resident and one favorite row has just been
\* deleted; the person is still stored.
C4_Witness ==
    /\ last.op = "delete_planet" /\ last.status = "ok"
    /\ last.detached = 1 /\ last.removed = 1
    /\ people # EmptyTable
    /\ favorite_planets = EmptyTable

\* C5: in every reachable state each Person's homeworld_id is null or the id
\* of a stored Planet, also after the delete of a planet that had residents.
C5_HomeworldReferencesPlanet ==
    \A r \in DOMAIN people :
        \/ r.homeworld_id = Null
        \/ \E p \in DOMAIN planets : r.homeworld_id = Val(p.id)

\* C5 witness: a planet with a resident has just been deleted, and there are
\* both a person without a homeworld and a person whose homeworld is stored.
C5_Witness ==
    /\ last.op = "delete_planet" /\ last.detached = 1
    /\ \E r \in DOMAIN people : r.homeworld_id = Null
    /\ \E r \in DOMAIN people : \E p \in DOMAIN planets : r.homeworld_id = Val(p.id)

\* C9: for every stored Planet, Planet.serialize()["resident_ids"] lists, once
\* each, exactly the ids of the People whose homeworld_id is that planet's id.
C9_ResidentIds ==
    \A r \in DOMAIN planets :
        LET res == {q.id : q \in {x \in DOMAIN people : x.homeworld_id = Val(r.id)}}
            s == Planet_serialize(Db, r)
        IN  /\ Elems(s.resident_ids) = res
            /\ Len(s.resident_ids) = Cardinality(res)

\* C9 witness: a homeworld_id update has just moved a person; one planet now
\* lists two residents while another planet lists none.
C9_Witness ==
    /\ last.op = "update_homeworld" /\ last.status = "ok"
    /\ \E r \in DOMAIN planets : Len(Planet_serialize(Db, r).resident_ids) = 2
    /\ \E r \in DOMAIN planets : Planet_serialize(Db, r).resident_ids = <<>>

\* C6, step part: an insert of a user whose email is in use is rejected and
\* leaves users as it was; an insert with an unused email of an otherwise valid
\* row (a password, and an id that is unset or unused) is accepted, and the
\* stored row has a subscription_date, its is_active being true when the
\* caller supplied none.
C6_InsertUserByEmail ==
    \A email \in Emails :
        IF \E r \in DOMAIN users : r.email = Val(email)
        THEN \/ last'.status = "IntegrityError" /\ users' = users
             \/ ~ ( /\ last'.op = "insert_user"
                    /\ \E id \in Opt(Ids), password \in Opt(Passwords),
                          is_active \in Opt(BOOLEAN), subscription_date \in Opt({Epoch}) :
                            InsertUser(id, Val(email), password, is_active,
                                       subscription_date, Later) )
        ELSE \A id \in Opt(Ids), password \in Passwords, is_active \in Opt(BOOLEAN),
                subscription_date \in Opt({Epoch}) :
                ( /\ last'.op = "insert_user"
                  /\ \A r \in DOMAIN users : id # Val(r.id)
                  /\ InsertUser(id, Val(email), Val(password), is_active,
                                subscription_date, Later) )
                => /\ last'.status = "ok"
                   /\ \E r \in DOMAIN users' :
                         /\ r \notin DOMAIN users
                         /\ r.email = Val(email)
                         /\ r.subscription_date # Null
                         /\ subscription_date = Null => r.subscription_date = Val(Later)
                         /\ is_active = Null => r.is_active = Val(TRUE)

\* C6: creating a User whose email equals that of an existing User fails with
\* a constraint violation and leaves the users table unchanged; creating a User
\* with an email not in use succeeds and the stored row has a non-null
\* subscription_date and is_active = true when neither was supplied.
C6_UserEmail == [][C6_InsertUserByEmail]_vars

\* C6 witness: an insert has just been rejected for its email alone, and the
\* stored user was created with neither is_active nor subscription_date.
C6_Witness ==
    /\ last.op = "insert_user"
    /\ last.error = {"users.email UNIQUE"}
    /\ \E r \in DOMAIN users : r.is_active = Val(TRUE) /\ r.subscription_date = Val(Later)

\* C7, state part: no two planets share a name and no two vehicles share a name.
C7_NamesUnique ==
    /\ \A r1, r2 \in DOMAIN planets : r1.id # r2.id => r1.name # r2.name
    /\ \A r1, r2 \in DOMAIN vehicles : r1.id # r2.id => r1.name # r2.name

\* C7, step part: an insert or a rename that gives a planet or a vehicle the
\* name of another one is rejected and changes nothing.
C7_DuplicateNameRejected ==
    \/ last'.status = "IntegrityError" /\ UNCHANGED tables
    \/ /\ \A name \in Names :
            /\ ~ ( /\ last'.op = "insert_planet"
                   /\ \E r \in DOMAIN planets : r.name = Val(name)
                   /\ InsertPlanet(Null, Val(name)) )
            /\ ~ ( /\ last'.op = "update_planet"
                   /\ \E p \in Ids :
                        /\ \E r \in DOMAIN planets : r.id # p /\ r.name = Val(name)
                        /\ RenamePlanet(p, Val(name)) )
       /\ \A name \in VehicleNames :
            /\ ~ ( /\ last'.op = "insert_vehicle"
                   /\ \E r \in DOMAIN vehicles : r.name = Val(name)
                   /\ \E model \in Opt(Models), manufacturer \in Opt(Manufacturers) :
                            InsertVehicle(Null, Val(name), model, manufacturer) )
            /\ ~ ( /\ last'.op = "update_vehicle"
                   /\ \E v \in Ids :
                        /\ \E r \in DOMAIN vehicles : r.id # v /\ r.name = Val(name)
                        /\ RenameVehicle(v, Val(name)) )

\* C7, step part: an insert of a person under the name of a stored person is
\* accepted, and a rename of a person to the name of another one is accepted.
C7_SharedPersonNameAccepted ==
    \A name \in PersonNames :
        /\ ( /\ last'.op = "insert_person"
             /\ \E r \in DOMAIN people : r.name = Val(name)
             /\ InsertPerson(Null, Val(name), Null) )
           => /\ last'.status = "ok"
              /\ Cardinality({r \in DOMAIN people' : r.name = Val(name)}) >= 2
        /\ \A q \in Ids :
             ( /\ last'.op = "update_person"
               /\ \E r \in DOMAIN people : r.id # q /\ r.name = Val(name)
               /\ RenamePerson(q, Val(name)) )
             => /\ last'.status = "ok"
                /\ Cardinality({r \in DOMAIN people' : r.name = Val(name)}) >= 2

\* C7: in every reachable state no two Planets share a name and no two Vehicles
\* share a name (an insert or rename that would create a duplicate fails with a
\* constraint violation), whereas two People with the same name can coexist.
C7_NameUniqueness ==
    []C7_NamesUnique /\ [][C7_DuplicateNameRejected /\ C7_SharedPersonNameAccepted]_vars

\* C7 witness: two people are stored under one name, two vehicles under
\* different names, and a rename of a vehicle to the other's name has just
\* been rejected for the name alone.
C7_Witness ==
    /\ \E r1, r2 \in DOMAIN people : r1.id # r2.id /\ r1.name = r2.name
    /\ Cardinality(DOMAIN vehicles) = 2
    /\ last.op = "update_vehicle"
    /\ last.error = {"vehicles.name UNIQUE"}

====
